---- MODULE Spec2Model ----
(***************************************************************************)
(* svg_to_obj.py: SVG path data -> polyline -> fan triangulation ->        *)
(* extruded OBJ mesh.                                                      *)
(*                                                                         *)
(* Numbers.  The program computes in Python floats (IEEE-754 binary64).    *)
(* A float is held here exactly, as a sign and a magnitude counted in      *)
(* units of 2^-FracBits; the magnitude is a little-endian sequence of      *)
(* NLimbs digits in base Base, because a 53-bit significand does not fit   *)
(* one TLC integer.  float() of a decimal literal and float addition round *)
(* to 53 significant bits, ties to even, as the hardware does.  The only   *)
(* values that are not floats are the interior samples of a Bezier curve:  *)
(* they are held as the exact value of the polynomial, numerator over      *)
(* den = segments^3 (the float evaluation differs from it by rounding      *)
(* only, and no branch of the program reads a sample).  The scale factor   *)
(* width / svg_width is taken from powers of two, for which float          *)
(* multiplication is exact.                                                *)
(***************************************************************************)
EXTENDS Integers, Sequences, FiniteSets, TLC

LimbBits == 16
NLimbs == 5
FracBits == 56
MantBits == 53

\* The arithmetic is written as functions, whose arguments are values.
Pow2[k \in Nat] == IF k = 0 THEN 1 ELSE 2 * Pow2[k - 1]

Base == Pow2[LimbBits]

Mag == [1..NLimbs -> 0..(Base - 1)]
Number == [neg : BOOLEAN, mag : Mag, den : Nat]

ZeroMag == [j \in 1..NLimbs |-> 0]

\* 2^FracBits units = 1.0
OneMag ==
    [j \in 1..NLimbs |->
        IF j = FracBits \div LimbBits + 1 THEN Pow2[FracBits % LimbBits]
        ELSE 0]

AddCarry[a \in Mag, b \in Mag, j \in 1..(NLimbs + 1), carry \in 0..1] ==
    IF j > NLimbs THEN <<>>
    ELSE LET s == a[j] + b[j] + carry
         IN  <<s % Base>> \o AddCarry[a, b, j + 1, s \div Base]

AddMag[a \in Mag, b \in Mag] == AddCarry[a, b, 1, 0]

\* a - b for a >= b
SubBorrow[a \in Mag, b \in Mag, j \in 1..(NLimbs + 1), borrow \in 0..1] ==
    IF j > NLimbs THEN <<>>
    ELSE LET s == a[j] - b[j] - borrow
         IN  IF s < 0 THEN <<s + Base>> \o SubBorrow[a, b, j + 1, 1]
                      ELSE <<s>> \o SubBorrow[a, b, j + 1, 0]

SubMag[a \in Mag, b \in Mag] == SubBorrow[a, b, 1, 0]

LessFrom[a \in Mag, b \in Mag, j \in 0..NLimbs] ==
    IF j = 0 THEN FALSE
    ELSE IF a[j] # b[j] THEN a[j] < b[j]
    ELSE LessFrom[a, b, j - 1]

LessMag[a \in Mag, b \in Mag] == LessFrom[a, b, NLimbs]

MulCarry[a \in Mag, w \in Nat, j \in 1..(NLimbs + 1), carry \in Nat] ==
    IF j > NLimbs THEN <<>>
    ELSE LET s == a[j] * w + carry
         IN  <<s % Base>> \o MulCarry[a, w, j + 1, s \div Base]

\* a * w for a small multiplier w (w < 2^15)
MulSmall[a \in Mag, w \in Nat] == MulCarry[a, w, 1, 0]

\* long division of a by a small divisor d (d <= 2^15), from the top limb
\* down: <<remainder>> followed by the quotient's limbs
DivFrom[a \in Mag, d \in Nat, j \in 0..NLimbs, rem \in Nat] ==
    IF j = 0 THEN <<rem>>
    ELSE LET cur == rem * Base + a[j]
         IN  DivFrom[a, d, j - 1, cur % d] \o <<cur \div d>>

Quotient[a \in Mag, d \in Nat] == Tail(DivFrom[a, d, NLimbs, 0])
Remainder[a \in Mag, d \in Nat] == Head(DivFrom[a, d, NLimbs, 0])

BitsOf[k \in Nat] == IF k = 0 THEN 0 ELSE 1 + BitsOf[k \div 2]

\* number of significant bits of a magnitude
BitLenFrom[a \in Mag, j \in 0..NLimbs] ==
    IF j = 0 THEN 0
    ELSE IF a[j] # 0 THEN LimbBits * (j - 1) + BitsOf[a[j]]
    ELSE BitLenFrom[a, j - 1]

BitLen[a \in Mag] == BitLenFrom[a, NLimbs]

\* num / den rounded to a multiple of 2^p, round-half-to-even
RoundAt[num \in Mag, den \in Nat, p \in Nat] ==
    LET g == den * Pow2[p]
        q == Quotient[num, g]
        r == Remainder[num, g]
        up == \/ 2 * r > g
              \/ 2 * r = g /\ q[1] % 2 = 1
    IN  MulSmall[IF up THEN AddMag[q, [ZeroMag EXCEPT ![1] = 1]] ELSE q,
                 Pow2[p]]

\* the magnitude num / den (den a small positive integer) rounded to
\* MantBits significant bits
RoundRatio[num \in Mag, den \in Nat] ==
    LET L == BitLen[Quotient[num, den]]
    IN  RoundAt[num, den, IF L > MantBits THEN L - MantBits ELSE 0]

Float0 == [neg |-> FALSE, mag |-> ZeroMag, den |-> 1]

MkFloat[neg \in BOOLEAN, mag \in Mag] ==
    [neg |-> neg /\ mag # ZeroMag, mag |-> mag, den |-> 1]

Abs(k) == IF k < 0 THEN -k ELSE k

\* float(token) for the decimal literal with one fractional digit whose
\* value is tenths/10 ("0.3" is 3, "10" is 100, "-0.2" is -2)
float[tenths \in Int] ==
    MkFloat[tenths < 0, RoundRatio[MulSmall[OneMag, Abs(tenths)], 10]]

\* a sign and a magnitude, not yet rounded
Exact == [neg : BOOLEAN, mag : Mag]

\* the exact sum of two signed magnitudes
ExactSum[x \in Exact, y \in Exact] ==
    IF x.neg = y.neg THEN [neg |-> x.neg, mag |-> AddMag[x.mag, y.mag]]
    ELSE IF LessMag[x.mag, y.mag]
         THEN [neg |-> y.neg, mag |-> SubMag[y.mag, x.mag]]
         ELSE [neg |-> x.neg, mag |-> SubMag[x.mag, y.mag]]

Signed(x) == [neg |-> x.neg, mag |-> x.mag]

\* x + y on floats: the exact sum, rounded
RoundSigned[e \in Exact] ==
    MkFloat[e.neg, RoundRatio[e.mag, 1]]

FAdd[x \in Number, y \in Number] ==
    RoundSigned[ExactSum[Signed(x), Signed(y)]]

\* -x
FNeg(x) == [x EXCEPT !.neg = ~x.neg /\ x.mag # ZeroMag]

\* x * s for s a power of two (exact)
FScale(x, s) == [x EXCEPT !.mag = MulSmall[x.mag, s]]

\* k / 2 for a Python int k (true division; exact)
HalfOfInt(k) == MkFloat[k < 0, Quotient[MulSmall[OneMag, Abs(k)], 2]]

(***************************************************************************)
(* approximate_bezier                                                      *)
(***************************************************************************)

\* num / den in lowest terms with respect to the factor s of den
Reduce[num \in Exact, den \in Nat, s \in Nat] ==
    IF den % s = 0 /\ s > 1 /\ Remainder[num.mag, s] = 0
    THEN Reduce[[num EXCEPT !.mag = Quotient[num.mag, s]], den \div s, s]
    ELSE [neg |-> num.neg /\ num.mag # ZeroMag, mag |-> num.mag, den |-> den]

Weighted[x \in Number, w \in Nat] == [neg |-> x.neg, mag |-> MulSmall[x.mag, w]]

\* one coordinate of the curve at t = i / segments:
\* (1-t)^3 a[1] + 3 (1-t)^2 t a[2] + 3 (1-t) t^2 a[3] + t^3 a[4]
ControlCoords == Number \X Number \X Number \X Number

BezierCoord[i \in Nat, segments \in Nat, a \in ControlCoords] ==
    LET u == segments - i
    IN  Reduce[ExactSum[ExactSum[Weighted[a[1], u * u * u],
                                 Weighted[a[2], 3 * u * u * i]],
                        ExactSum[Weighted[a[3], 3 * u * i * i],
                                 Weighted[a[4], i * i * i]]],
               segments * segments * segments, segments]

approximate_bezier(p0, p1, p2, p3, segments) ==
    [j \in 1..(segments + 1) |->
        <<BezierCoord[j - 1, segments, <<p0[1], p1[1], p2[1], p3[1]>>],
          BezierCoord[j - 1, segments, <<p0[2], p1[2], p2[2], p3[2]>>]>>]

(***************************************************************************)
(* parse_svg_path_robust.  A token is a command letter or a numeric        *)
(* literal; the parser state is the function's locals.  Python indexes     *)
(* tokens from 0: tokens[i] is toks[i + 1].                                *)
(***************************************************************************)

Letters == {"M", "m", "L", "l", "H", "h", "V", "v", "C", "c", "Z", "z"}

Cmd(c) == [c |-> c, v |-> 0]
Num(tenths) == [c |-> "n", v |-> tenths]

IsNum(tok) == tok.c = "n"

\* segments=10 is the default of approximate_bezier
DefaultSegments == 10

\* the parser passes segments=5
Segments == 5

\* the exception float(tokens[i]), ..., float(tokens[i+count-1]) raise, read
\* in that order: IndexError past the end, ValueError on a command letter
OperandError(toks, i, count) ==
    LET bad == {j \in 0..(count - 1) :
                   i + j >= Len(toks) \/ ~IsNum(toks[i + j + 1])}
    IN  IF bad = {} THEN "none"
        ELSE LET j == CHOOSE b \in bad : \A o \in bad : b <= o
             IN  IF i + j >= Len(toks) THEN "IndexError" ELSE "ValueError"

Operand(toks, i) == float[toks[i + 1].v]

ParserStart ==
    [i |-> 0, points |-> <<>>,
     current_x |-> Float0, current_y |-> Float0,
     start_x |-> Float0, start_y |-> Float0, exc |-> "none"]

Raise(st, e) == [st EXCEPT !.exc = e]

MoveTo(toks, st, cmd, i) ==
    IF OperandError(toks, i, 2) # "none"
    THEN Raise(st, OperandError(toks, i, 2))
    ELSE LET x == Operand(toks, i)
             y == Operand(toks, i + 1)
             cx == IF cmd = "M" THEN x ELSE FAdd[st.current_x, x]
             cy == IF cmd = "M" THEN y ELSE FAdd[st.current_y, y]
         IN  [st EXCEPT !.i = i + 2,
                        !.current_x = cx, !.current_y = cy,
                        !.start_x = cx, !.start_y = cy,
                        !.points = Append(st.points, <<cx, cy>>)]

\* l read as L
LineToAbsoluteOnly(toks, st, cmd, i) ==
    IF OperandError(toks, i, 2) # "none"
    THEN Raise(st, OperandError(toks, i, 2))
    ELSE LET x == Operand(toks, i)
             y == Operand(toks, i + 1)
         IN  [st EXCEPT !.i = i + 2,
                        !.current_x = x, !.current_y = y,
                        !.points = Append(st.points, <<x, y>>)]

LineTo(toks, st, cmd, i) ==
    IF OperandError(toks, i, 2) # "none"
    THEN Raise(st, OperandError(toks, i, 2))
    ELSE LET x == Operand(toks, i)
             y == Operand(toks, i + 1)
             cx == IF cmd = "L" THEN x ELSE FAdd[st.current_x, x]
             cy == IF cmd = "L" THEN y ELSE FAdd[st.current_y, y]
         IN  [st EXCEPT !.i = i + 2,
                        !.current_x = cx, !.current_y = cy,
                        !.points = Append(st.points, <<cx, cy>>)]

\* a missing operand skips the command instead of raising
HorizontalToLenient(toks, st, cmd, i) ==
    IF OperandError(toks, i, 1) # "none"
    THEN [st EXCEPT !.i = i]
    ELSE LET x == Operand(toks, i)
             cx == IF cmd = "H" THEN x ELSE FAdd[st.current_x, x]
         IN  [st EXCEPT !.i = i + 1,
                        !.current_x = cx,
                        !.points = Append(st.points, <<cx, st.current_y>>)]

HorizontalTo(toks, st, cmd, i) ==
    IF OperandError(toks, i, 1) # "none"
    THEN Raise(st, OperandError(toks, i, 1))
    ELSE LET x == Operand(toks, i)
             cx == IF cmd = "H" THEN x ELSE FAdd[st.current_x, x]
         IN  [st EXCEPT !.i = i + 1,
                        !.current_x = cx,
                        !.points = Append(st.points, <<cx, st.current_y>>)]

VerticalTo(toks, st, cmd, i) ==
    IF OperandError(toks, i, 1) # "none"
    THEN Raise(st, OperandError(toks, i, 1))
    ELSE LET y == Operand(toks, i)
             cy == IF cmd = "V" THEN y ELSE FAdd[st.current_y, y]
         IN  [st EXCEPT !.i = i + 1,
                        !.current_y = cy,
                        !.points = Append(st.points, <<st.current_x, cy>>)]

CurveTo(toks, st, cmd, i) ==
    IF OperandError(toks, i, 6) # "none"
    THEN Raise(st, OperandError(toks, i, 6))
    ELSE LET rel(a, cur) == IF cmd = "c" THEN FAdd[a, cur] ELSE a
             x1 == rel(Operand(toks, i), st.current_x)
             y1 == rel(Operand(toks, i + 1), st.current_y)
             x2 == rel(Operand(toks, i + 2), st.current_x)
             y2 == rel(Operand(toks, i + 3), st.current_y)
             x  == rel(Operand(toks, i + 4), st.current_x)
             y  == rel(Operand(toks, i + 5), st.current_y)
             curve_points ==
                 approximate_bezier(<<st.current_x, st.current_y>>,
                                    <<x1, y1>>, <<x2, y2>>, <<x, y>>, Segments)
         IN  [st EXCEPT !.i = i + 6,
                        !.points = st.points \o Tail(curve_points),
                        !.current_x = x, !.current_y = y]

\* the start point appended without comparing it with current
ClosePathAlwaysAppends(st, i) ==
    [st EXCEPT !.i = i,
               !.points = Append(st.points, <<st.start_x, st.start_y>>),
               !.current_x = st.start_x, !.current_y = st.start_y]

ClosePath(st, i) ==
    [st EXCEPT !.i = i,
               !.points = IF <<st.current_x, st.current_y>>
                              # <<st.start_x, st.start_y>>
                          THEN Append(st.points, <<st.start_x, st.start_y>>)
                          ELSE st.points,
               !.current_x = st.start_x, !.current_y = st.start_y]

\* one iteration of the while loop (i < len(tokens))
ParseStep(toks, st) ==
    LET cmd == toks[st.i + 1].c
        i   == st.i + 1
    IN  IF cmd \in {"M", "m"} THEN MoveTo(toks, st, cmd, i)
        ELSE IF cmd \in {"L", "l"} THEN LineTo(toks, st, cmd, i)
        ELSE IF cmd \in {"H", "h"} THEN HorizontalTo(toks, st, cmd, i)
        ELSE IF cmd \in {"V", "v"} THEN VerticalTo(toks, st, cmd, i)
        ELSE IF cmd \in {"C", "c"} THEN CurveTo(toks, st, cmd, i)
        ELSE IF cmd \in {"Z", "z"} THEN ClosePath(st, i)
        ELSE [st EXCEPT !.i = i]

RECURSIVE ParseLoop(_, _)
ParseLoop(toks, st) ==
    IF st.exc # "none" \/ st.i >= Len(toks) THEN st
    ELSE ParseLoop(toks, ParseStep(toks, st))

\* the call parse_svg_path_robust(path_d): the exception it raises, or the
\* points it returns
parse_svg_path_robust(toks) ==
    LET st == ParseLoop(toks, ParserStart)
    IN  [exc |-> st.exc,
         points |-> IF st.exc = "none" THEN st.points ELSE <<>>]

(***************************************************************************)
(* triangulate_polygon_earclip                                             *)
(***************************************************************************)

\* range(1, len(points)) for range(1, len(points) - 1)
TriangulateOffByOne(pts) ==
    IF Len(pts) < 3 THEN <<>>
    ELSE [j \in 1..(Len(pts) - 1) |-> <<0, j, j + 1>>]

triangulate_polygon_earclip(pts) ==
    IF Len(pts) < 3 THEN <<>>
    ELSE [j \in 1..(Len(pts) - 2) |-> <<0, j, j + 1>>]

(***************************************************************************)
(* svg_to_obj: the extrusion of one path (lines 180-228)                   *)
(***************************************************************************)

\* depth=10, the default of svg_to_obj and the value __main__ passes
depth == 10

\* scale and flip Y
ScalePoints(pts, sc) ==
    [j \in 1..Len(pts) |->
        <<FScale(pts[j][1], sc), FScale(FNeg(pts[j][2]), sc)>>]

FrontVertices(sp) ==
    [j \in 1..Len(sp) |-> <<sp[j][1], sp[j][2], HalfOfInt(depth)>>]

BackVertices(sp) ==
    [j \in 1..Len(sp) |-> <<sp[j][1], sp[j][2], HalfOfInt(-depth)>>]

\* the + 1 of OBJ's 1-based indexing left out
FrontFacesZeroBased(tris, fs) ==
    [t \in 1..Len(tris) |->
        <<fs + tris[t][1], fs + tris[t][2], fs + tris[t][3]>>]

FrontFaces(tris, fs) ==
    [t \in 1..Len(tris) |->
        <<fs + tris[t][1] + 1, fs + tris[t][2] + 1, fs + tris[t][3] + 1>>]

\* the winding not reversed
BackFacesSameWinding(tris, bs) ==
    [t \in 1..Len(tris) |->
        <<bs + tris[t][1] + 1, bs + tris[t][2] + 1, bs + tris[t][3] + 1>>]

\* reversed winding
BackFaces(tris, bs) ==
    [t \in 1..Len(tris) |->
        <<bs + tris[t][1] + 1, bs + tris[t][3] + 1, bs + tris[t][2] + 1>>]

\* one triangle per quad
SideFacesOneTriangle(cnt, fs, bs) ==
    [m \in 1..cnt |->
        <<fs + m, bs + m, bs + (m % cnt) + 1>>]

\* two triangles per quad, for i in range(n)
SideFaces(cnt, fs, bs) ==
    [m \in 1..(2 * cnt) |->
        LET i0 == (m - 1) \div 2
            next_i == (i0 + 1) % cnt
            v1 == fs + i0 + 1
            v2 == bs + i0 + 1
            v3 == bs + next_i + 1
            v4 == fs + next_i + 1
        IN  IF m % 2 = 1 THEN <<v1, v2, v3>> ELSE <<v1, v3, v4>>]

(***************************************************************************)
(* State.  The three functions of the file are the entry points; entry     *)
(* records which one was called.  The locals of svg_to_obj and of the      *)
(* parser call in progress are variables.                                  *)
(***************************************************************************)
VARIABLES
    entry,            \* the function called: "svg_to_obj", "parse", "triangulate"
    pc,               \* where control is
    paths,            \* the path elements found in the document
    scale,            \* width / svg_width
    taken,            \* how many elements the for loop has taken from paths
    tokens,           \* parser: the token list
    parser,           \* parser: i, points, current_x/y, start_x/y; exc
    points,           \* svg_to_obj: the polyline the parser returned
    scaled_points,    \* svg_to_obj / triangulate argument
    front_start,
    back_start,
    front_triangles,  \* svg_to_obj local / triangulate result
    vertices,
    faces,
    output            \* the OBJ file written

vars == <<entry, pc, paths, scale, taken, tokens, parser, points,
          scaled_points, front_start, back_start, front_triangles,
          vertices, faces, output>>

parserVars == <<tokens, parser>>
meshVars == <<scaled_points, front_start, back_start, front_triangles,
              vertices, faces>>

NoD == [d |-> FALSE, toks |-> <<>>]
PathD(toks) == [d |-> TRUE, toks |-> toks]

NoOutput == [written |-> FALSE, vertices |-> <<>>, faces |-> <<>>]

(***************************************************************************)
(* Inputs.  Numeric literals are written in tenths: 100 is "10", 3 is      *)
(* "0.3".                                                                  *)
(***************************************************************************)
MaxTokens == 3
MaxCmds == 2
MaxPaths == 2
MaxPolygon == 4

SeqsUpTo(S, n) == UNION {[1..m -> S] : m \in 0..n}

RECURSIVE Flatten(_)
Flatten(ss) == IF ss = <<>> THEN <<>> ELSE Head(ss) \o Flatten(Tail(ss))

\* every token string of at most MaxTokens tokens over the twelve command
\* letters and the literals 0 and 10
Alphabet == {Cmd(c) : c \in Letters} \cup {Num(0), Num(100)}
TokenStrings == SeqsUpTo(Alphabet, MaxTokens)

\* operand points and single coordinates of the command strings
OperandPoints == {<<0, 0>>, <<100, 0>>, <<3, 1>>}
OperandCoords == {0, 1, 100}

\* the commands with all their operands
Commands ==
    {<<Cmd(c), Num(p[1]), Num(p[2])>> :
        c \in {"M", "m", "L", "l"}, p \in OperandPoints}
    \cup {<<Cmd(c), Num(x)>> :
            c \in {"H", "h", "V", "v"}, x \in OperandCoords}
    \cup {<<Cmd(c)>> : c \in {"Z", "z"}}
    \cup {<<Cmd(c), Num(0), Num(100), Num(q[1]), Num(q[2]),
            Num(r[1]), Num(r[2])>> :
            c \in {"C", "c"}, q \in {<<100, 100>>, <<3, 1>>},
            r \in {<<100, 0>>, <<1, 3>>}}

\* a command letter with fewer operands than it reads
ArityOf(c) == IF c \in {"M", "m", "L", "l"} THEN 2
              ELSE IF c \in {"H", "h", "V", "v"} THEN 1
              ELSE IF c \in {"C", "c"} THEN 6 ELSE 0

TruncatedCommands ==
    {<<Cmd(c)>> \o [j \in 1..m |-> Num(100)] :
        c \in Letters \ {"Z", "z"}, m \in 0..5} \
    {t \in {<<Cmd(c)>> \o [j \in 1..m |-> Num(100)] :
               c \in Letters \ {"Z", "z"}, m \in 0..5} :
        Len(t) - 1 >= ArityOf(t[1].c)}

\* every string of at most MaxCmds commands, the last one possibly cut short
CommandStrings ==
    {Flatten(cs) : cs \in SeqsUpTo(Commands, MaxCmds)}
    \cup {Flatten(cs) \o t :
            cs \in SeqsUpTo(Commands, MaxCmds - 1), t \in TruncatedCommands}

\* the paths of the specification's examples
Path(letters_and_numbers) ==
    [j \in 1..Len(letters_and_numbers) |->
        IF letters_and_numbers[j][1] = "n"
        THEN Num(letters_and_numbers[j][2])
        ELSE Cmd(letters_and_numbers[j][1])]

n(k) == <<"n", k>>
c(l) == <<l, 0>>

\* M0,0 L10,0 L10,10 L0,10 Z
SquarePath ==
    Path(<<c("M"), n(0), n(0), c("L"), n(100), n(0), c("L"), n(100), n(100),
           c("L"), n(0), n(100), c("Z")>>)
\* M0,0 l10,0 l0,10 l-10,0 Z
RelativeSquarePath ==
    Path(<<c("M"), n(0), n(0), c("l"), n(100), n(0), c("l"), n(0), n(100),
           c("l"), n(-100), n(0), c("Z")>>)
\* M0,0 L10,0 L10,10 L0,10
OpenSquarePath ==
    Path(<<c("M"), n(0), n(0), c("L"), n(100), n(0), c("L"), n(100), n(100),
           c("L"), n(0), n(100)>>)
\* M0,0 H10 v10
TrianglePath ==
    Path(<<c("M"), n(0), n(0), c("H"), n(100), c("v"), n(100)>>)
\* M0,0 C0,10 10,10 10,0
CurvePath ==
    Path(<<c("M"), n(0), n(0), c("C"), n(0), n(100), n(100), n(100),
           n(100), n(0)>>)
\* M0,0 L10,0
SegmentPath == Path(<<c("M"), n(0), n(0), c("L"), n(100), n(0)>>)
\* M0,0 L10,0 L10
CutShortPath ==
    Path(<<c("M"), n(0), n(0), c("L"), n(100), n(0), c("L"), n(100)>>)
\* M0,0 L10 Z
LetterOperandPath == Path(<<c("M"), n(0), n(0), c("L"), n(100), c("Z")>>)
\* 10 10 M0,0 L10,0 L10,10
LeadingNumbersPath ==
    Path(<<n(100), n(100), c("M"), n(0), n(0), c("L"), n(100), n(0),
           c("L"), n(100), n(100)>>)

ExamplePaths ==
    {SquarePath, RelativeSquarePath, OpenSquarePath, TrianglePath, CurvePath,
     SegmentPath, CutShortPath, LetterOperandPath, LeadingNumbersPath, <<>>}

ParseInputs == TokenStrings \cup CommandStrings \cup ExamplePaths

\* the path elements of a document: with no d attribute, or with one
PathElements == {NoD} \cup {PathD(t) : t \in ExamplePaths}
RunInputs == SeqsUpTo(PathElements, MaxPaths)
Scales == {1, 2}

\* point sequences over the corners of the square (0,0) (4,0) (4,4) (0,4)
Corners ==
    {<<float[0], float[0]>>, <<float[40], float[0]>>,
     <<float[40], float[40]>>, <<float[0], float[40]>>}
PolygonInputs == SeqsUpTo(Corners, MaxPolygon)

Blank ==
    /\ taken = 0
    /\ parser = ParserStart
    /\ points = <<>>
    /\ front_start = 0
    /\ back_start = 0
    /\ front_triangles = <<>>
    /\ vertices = <<>>
    /\ faces = <<>>
    /\ output = NoOutput

\* svg_to_obj(svg_file, ...) on a document holding the elements paths
InitRun ==
    /\ entry = "svg_to_obj"
    /\ pc = "paths"
    /\ paths \in RunInputs
    /\ scale \in Scales
    /\ tokens = <<>>
    /\ scaled_points = <<>>
    /\ Blank

\* parse_svg_path_robust(path_d)
InitParse ==
    /\ entry = "parse"
    /\ pc = "parse"
    /\ paths = <<>>
    /\ scale = 1
    /\ tokens \in ParseInputs
    /\ scaled_points = <<>>
    /\ Blank

\* triangulate_polygon_earclip(points)
InitTriangulate ==
    /\ entry = "triangulate"
    /\ pc = "triangulate"
    /\ paths = <<>>
    /\ scale = 1
    /\ tokens = <<>>
    /\ scaled_points \in PolygonInputs
    /\ Blank

Init == InitRun \/ InitParse \/ InitTriangulate

(***************************************************************************)
(* parse_svg_path_robust, one loop iteration per action                    *)
(***************************************************************************)
AtCommand(cmds) ==
    /\ pc = "parse"
    /\ parser.i < Len(tokens)
    /\ tokens[parser.i + 1].c \in cmds

\* the iteration raises nothing
Iterate ==
    /\ \E st \in {ParseStep(tokens, parser)} :
          st.exc = "none" /\ parser' = st
    /\ UNCHANGED <<entry, pc, paths, scale, taken, tokens, points,
                   meshVars, output>>

ParseMove ==
    /\ AtCommand({"M", "m"})
    /\ Iterate

ParseLine ==
    /\ AtCommand({"L", "l"})
    /\ Iterate

ParseHorizontal ==
    /\ AtCommand({"H", "h"})
    /\ Iterate

ParseVertical ==
    /\ AtCommand({"V", "v"})
    /\ Iterate

ParseCurve ==
    /\ AtCommand({"C", "c"})
    /\ Iterate

ParseClose ==
    /\ AtCommand({"Z", "z"})
    /\ Iterate

\* a numeric token where a command is read: no branch matches
ParseOther ==
    /\ AtCommand({"n"})
    /\ Iterate

\* float(tokens[...]) raises; nothing catches it, in the parser or in
\* svg_to_obj
ParseRaise ==
    /\ AtCommand(Letters)
    /\ \E st \in {ParseStep(tokens, parser)} :
          st.exc # "none" /\ parser' = st
    /\ pc' = "raised"
    /\ UNCHANGED <<entry, paths, scale, taken, tokens, points,
                   meshVars, output>>

ParseReturn ==
    /\ pc = "parse"
    /\ parser.i >= Len(tokens)
    /\ points' = parser.points
    /\ pc' = IF entry = "svg_to_obj" THEN "parsed" ELSE "returned"
    /\ UNCHANGED <<entry, paths, scale, taken, parserVars, meshVars, output>>

(***************************************************************************)
(* svg_to_obj                                                              *)
(***************************************************************************)
\* if not path_d: continue
SkipNoD ==
    /\ pc = "paths"
    /\ taken < Len(paths)
    /\ ~paths[taken + 1].d
    /\ taken' = taken + 1
    /\ UNCHANGED <<entry, pc, paths, scale, parserVars, points, meshVars,
                   output>>

\* points = parse_svg_path_robust(path_d)
CallParse ==
    /\ pc = "paths"
    /\ taken < Len(paths)
    /\ paths[taken + 1].d
    /\ taken' = taken + 1
    /\ tokens' = paths[taken + 1].toks
    /\ parser' = ParserStart
    /\ pc' = "parse"
    /\ UNCHANGED <<entry, paths, scale, points, meshVars, output>>

\* if len(points) < 3: continue
SkipShort ==
    /\ pc = "parsed"
    /\ Len(points) < 3
    /\ pc' = "paths"
    /\ UNCHANGED <<entry, paths, scale, taken, parserVars, points, meshVars,
                   output>>

Extrude ==
    /\ pc = "parsed"
    /\ Len(points) >= 3
    /\ LET sp == ScalePoints(points, scale)
           fs == Len(vertices)
           bs == fs + Len(sp)
           tris == triangulate_polygon_earclip(sp)
       IN  /\ scaled_points' = sp
           /\ front_start' = fs
           /\ back_start' = bs
           /\ front_triangles' = tris
           /\ vertices' = vertices \o FrontVertices(sp) \o BackVertices(sp)
           /\ faces' = faces \o FrontFaces(tris, fs) \o BackFaces(tris, bs)
                             \o SideFaces(Len(sp), fs, bs)
    /\ pc' = "paths"
    /\ UNCHANGED <<entry, paths, scale, taken, parserVars, points, output>>

\* the loop is over: write the OBJ file
WriteObj ==
    /\ pc = "paths"
    /\ taken = Len(paths)
    /\ output' = [written |-> TRUE, vertices |-> vertices, faces |-> faces]
    /\ pc' = "done"
    /\ UNCHANGED <<entry, paths, scale, taken, parserVars, points, meshVars>>

(***************************************************************************)
(* triangulate_polygon_earclip called on its own                           *)
(***************************************************************************)
Triangulate ==
    /\ pc = "triangulate"
    /\ front_triangles' = triangulate_polygon_earclip(scaled_points)
    /\ pc' = "returned"
    /\ UNCHANGED <<entry, paths, scale, taken, parserVars, points,
                   scaled_points, front_start, back_start, vertices, faces,
                   output>>

Next ==
    \/ ParseMove
    \/ ParseLine
    \/ ParseHorizontal
    \/ ParseVertical
    \/ ParseCurve
    \/ ParseClose
    \/ ParseOther
    \/ ParseRaise
    \/ ParseReturn
    \/ SkipNoD
    \/ CallParse
    \/ SkipShort
    \/ Extrude
    \/ WriteObj
    \/ Triangulate

Spec == Init /\ [][Next]_vars

(***************************************************************************)
(* Properties                                                              *)
(***************************************************************************)
Current(st) == <<st.current_x, st.current_y>>
Start(st) == <<st.start_x, st.start_y>>
Origin == <<Float0, Float0>>

IsPrefix(s, t) == Len(s) <= Len(t) /\ SubSeq(t, 1, Len(s)) = s

\* the polyline a path element contributes: none without a d attribute
PolylineOf(e) ==
    IF e.d THEN parse_svg_path_robust(e.toks).points ELSE <<>>

VerticesOf(e) ==
    IF Len(PolylineOf(e)) >= 3 THEN 2 * Len(PolylineOf(e)) ELSE 0

FacesOf(e) ==
    IF Len(PolylineOf(e)) >= 3
    THEN 2 * (Len(PolylineOf(e)) - 2) + 2 * Len(PolylineOf(e))
    ELSE 0

RECURSIVE VertexTotal(_, _)
VertexTotal(ps, k) ==
    IF k = 0 THEN 0 ELSE VertexTotal(ps, k - 1) + VerticesOf(ps[k])

RECURSIVE FaceTotal(_, _)
FaceTotal(ps, k) ==
    IF k = 0 THEN 0 ELSE FaceTotal(ps, k - 1) + FacesOf(ps[k])

\* some command letter of toks is followed by fewer numeric tokens than its
\* arity, before the next command letter or the end
HasTruncatedCommand(toks) ==
    \E j \in 1..Len(toks) :
        /\ ~IsNum(toks[j])
        /\ \E a \in 1..ArityOf(toks[j].c) :
              j + a > Len(toks) \/ ~IsNum(toks[j + a])

\* C1: in a run of svg_to_obj a malformed path does not abort the run: the
\* run ends with the file written, every path taken, and the mesh holding
\* the vertices and faces of every well-formed path of three points or more.
C1_MalformedPathSkipped ==
    entry = "svg_to_obj" /\ pc \in {"done", "raised"}
    => /\ pc = "done"
       /\ taken = Len(paths)
       /\ Len(vertices) = VertexTotal(paths, Len(paths))
       /\ Len(faces) = FaceTotal(paths, Len(paths))

\* C2: a token string in which a command letter is followed by fewer numeric
\* tokens than its arity never makes the parser return: the call is still
\* running or has raised, and the function's outcome is an exception.
C2_TruncatedCommandRaises ==
    HasTruncatedCommand(tokens)
    => /\ pc \in {"parse", "raised"}
       /\ pc = "raised" => parser.exc \in {"IndexError", "ValueError"}
       /\ parse_svg_path_robust(tokens).exc # "none"

\* a call that read part of a polyline and then raised on a cut-short command
C2_Witness ==
    /\ pc = "raised"
    /\ HasTruncatedCommand(tokens)
    /\ parser.exc = "IndexError"
    /\ Len(parser.points) >= 2
    /\ points = <<>>

\* C3: a token string that begins with a numeric token (a number before any
\* command letter) never makes the parser return a polyline.
C3_LeadingNumberRaises ==
    Len(tokens) > 0 /\ IsNum(tokens[1]) => pc \in {"parse", "raised"}

\* C4: a Close command appends subpath_start exactly when current differs
\* from it, sets current to subpath_start and lets parsing go on;
\* subpath_start is (0,0) until a Move sets it to the cursor, and no other
\* command changes it; the square path yields its five points.
SquarePolyline ==
    <<<<float[0], float[0]>>, <<float[100], float[0]>>,
      <<float[100], float[100]>>, <<float[0], float[100]>>,
      <<float[0], float[0]>>>>

C4_CloseStep ==
    /\ AtCommand({"Z", "z"}) =>
          /\ parser'.points =
                IF Current(parser) # Start(parser)
                THEN Append(parser.points, Start(parser))
                ELSE parser.points
          /\ Current(parser') = Start(parser)
          /\ Start(parser') = Start(parser)
          /\ parser'.i = parser.i + 1
          /\ parser'.exc = "none"
          /\ pc' = "parse"
    /\ AtCommand({"M", "m"}) /\ parser'.exc = "none" =>
          /\ Start(parser') = Current(parser')
          /\ parser'.points = Append(parser.points, Current(parser'))
    /\ AtCommand(Letters \ {"M", "m"}) \/ AtCommand({"n"}) =>
          Start(parser') = Start(parser)

C4_ClosePath ==
    /\ [](pc = "parse" /\ parser.i = 0 =>
             Start(parser) = Origin /\ Current(parser) = Origin)
    /\ [](tokens = SquarePath /\ pc \in {"returned", "parsed"} =>
             points = SquarePolyline)
    /\ [][C4_CloseStep]_vars

\* the square path parsed: its Close appended the start point
C4_Witness ==
    /\ entry = "parse"
    /\ tokens = SquarePath
    /\ pc = "returned"
    /\ Len(points) = 5
    /\ points[5] = points[1]
    /\ points[4] # points[1]

\* C5: a string of absolute commands and the string of relative commands
\* whose operands are the absolute ones minus the cursor position parse to
\* the same polyline.
AbsoluteLetters == {"M", "L", "H", "V", "C", "Z"}

RECURSIVE IsAbsoluteFrom(_, _)
IsAbsoluteFrom(toks, j) ==
    \/ j > Len(toks)
    \/ /\ toks[j].c \in AbsoluteLetters
       /\ j + ArityOf(toks[j].c) <= Len(toks)
       /\ \A a \in 1..ArityOf(toks[j].c) : IsNum(toks[j + a])
       /\ IsAbsoluteFrom(toks, j + 1 + ArityOf(toks[j].c))

\* toks is a string of absolute commands, each with all its operands
IsAbsolute(toks) == IsAbsoluteFrom(toks, 1)

\* the relative string, from token j on, with the cursor at (cx, cy) and the
\* subpath start at (sx, sy), all in tenths
RECURSIVE RelativeFrom(_, _, _, _, _, _)
RelativeFrom(toks, j, cx, cy, sx, sy) ==
    IF j > Len(toks) THEN <<>>
    ELSE LET l == toks[j].c
             v(a) == toks[j + a].v
         IN  IF l = "M"
             THEN <<Cmd("m"), Num(v(1) - cx), Num(v(2) - cy)>>
                  \o RelativeFrom(toks, j + 3, v(1), v(2), v(1), v(2))
             ELSE IF l = "L"
             THEN <<Cmd("l"), Num(v(1) - cx), Num(v(2) - cy)>>
                  \o RelativeFrom(toks, j + 3, v(1), v(2), sx, sy)
             ELSE IF l = "H"
             THEN <<Cmd("h"), Num(v(1) - cx)>>
                  \o RelativeFrom(toks, j + 2, v(1), cy, sx, sy)
             ELSE IF l = "V"
             THEN <<Cmd("v"), Num(v(1) - cy)>>
                  \o RelativeFrom(toks, j + 2, cx, v(1), sx, sy)
             ELSE IF l = "C"
             THEN <<Cmd("c"), Num(v(1) - cx), Num(v(2) - cy),
                    Num(v(3) - cx), Num(v(4) - cy),
                    Num(v(5) - cx), Num(v(6) - cy)>>
                  \o RelativeFrom(toks, j + 7, v(5), v(6), sx, sy)
             ELSE <<Cmd("z")>> \o RelativeFrom(toks, j + 1, sx, sy, sx, sy)

Relative(toks) == RelativeFrom(toks, 1, 0, 0, 0, 0)

\* every numeric literal of toks is an integer
AllIntegers(toks) ==
    \A j \in 1..Len(toks) : IsNum(toks[j]) => toks[j].v % 10 = 0

Returned == entry # "triangulate" /\ pc \in {"returned", "parsed"}

\* C5 as stated: for every string of absolute commands
C5_RelativeSamePolyline ==
    Returned /\ IsAbsolute(tokens)
    => parse_svg_path_robust(Relative(tokens))
          = [exc |-> "none", points |-> points]

\* C5 amended: for every string of absolute commands whose operands are
\* integers (of magnitude at most 2^52, so that operands, offsets and sums
\* are all exact floats), the relative string parses to the same polyline,
\* point for point.
C5_RelativeOfIntegersSamePolyline ==
    Returned /\ IsAbsolute(tokens) /\ AllIntegers(tokens)
    => parse_svg_path_robust(Relative(tokens))
          = [exc |-> "none", points |-> points]

\* an integer string whose relative form has other operands, with a curve
\* drawn from a cursor away from the origin
C5_Witness ==
    /\ Returned
    /\ IsAbsolute(tokens)
    /\ AllIntegers(tokens)
    /\ Len(tokens) = 10
    /\ tokens[1].c = "M" /\ tokens[2].v = 100
    /\ tokens[4].c = "C"
    /\ Relative(tokens)[9] # tokens[9]
    /\ Len(points) = 6
    /\ parse_svg_path_robust(Relative(tokens)).points = points

\* C6: triangulate_polygon_earclip returns nothing for fewer than 3 points
\* and otherwise the n-2 triangles (0, i, i+1), i = 1 .. n-2, in that order.
C6_FanTriangles ==
    entry = "triangulate" /\ pc = "returned"
    => LET cnt == Len(scaled_points)
       IN  /\ cnt < 3 => front_triangles = <<>>
           /\ cnt >= 3 =>
                 /\ Len(front_triangles) = cnt - 2
                 /\ \A k \in 1..(cnt - 2) :
                       front_triangles[k] = <<0, k, k + 1>>

\* the square (0,0) (4,0) (4,4) (0,4) yields (0,1,2) and (0,2,3)
C6_Witness ==
    /\ entry = "triangulate"
    /\ pc = "returned"
    /\ scaled_points = <<<<float[0], float[0]>>, <<float[40], float[0]>>,
                         <<float[40], float[40]>>, <<float[0], float[40]>>>>
    /\ front_triangles = <<<<0, 1, 2>>, <<0, 2, 3>>>>

\* C7: the mesh holds, for the paths processed so far, the sum over those of
\* N >= 3 points of 2N vertices and 2(N-2) + 2N faces; only the extrusion of
\* a path of 3 points or more changes either buffer.
Processed == IF pc \in {"paths", "done"} THEN taken ELSE taken - 1

C7_MeshTotals ==
    /\ [](entry = "svg_to_obj" =>
             /\ Len(vertices) = VertexTotal(paths, Processed)
             /\ Len(faces) = FaceTotal(paths, Processed))
    /\ [][~(pc = "parsed" /\ Len(points) >= 3)
             => vertices' = vertices /\ faces' = faces]_vars

\* a run that took a path without d, a short one and two polygons
C7_Witness ==
    /\ entry = "svg_to_obj"
    /\ pc = "done"
    /\ Len(paths) = 2
    /\ paths[1] = PathD(SquarePath)
    /\ paths[2] = PathD(CurvePath)
    /\ Len(output.vertices) = 10 + 12
    /\ Len(output.faces) = 16 + 20

\* C8: every face is three 1-based indices into the vertex buffer; the faces
\* a path appends index only the 2N vertices (front block, then back block)
\* that the same path appends; what is in the buffers is never changed.
C8_AppendStep ==
    /\ IsPrefix(vertices, vertices')
    /\ IsPrefix(faces, faces')
    /\ vertices' # vertices \/ faces' # faces =>
          LET cnt == Len(points)
              V == Len(vertices)
          IN  /\ Len(vertices') = V + 2 * cnt
              /\ \A j \in 1..cnt :
                    /\ vertices'[V + j][3] = HalfOfInt(depth)
                    /\ vertices'[V + cnt + j][3] = HalfOfInt(-depth)
                    /\ vertices'[V + j][1] = vertices'[V + cnt + j][1]
                    /\ vertices'[V + j][2] = vertices'[V + cnt + j][2]
              /\ \A f \in (Len(faces) + 1)..Len(faces') :
                    \A t \in 1..3 : faces'[f][t] \in (V + 1)..(V + 2 * cnt)

C8_FacesIndexOwnBlock ==
    /\ [](\A f \in 1..Len(faces) :
             /\ Len(faces[f]) = 3
             /\ \A t \in 1..3 : faces[f][t] \in 1..Len(vertices))
    /\ [][C8_AppendStep]_vars

\* two polygons extruded, the second one's faces indexing past the first
\* one's vertices
C8_Witness ==
    /\ entry = "svg_to_obj"
    /\ pc = "done"
    /\ front_start = 8
    /\ Len(vertices) = 14
    /\ \A f \in 13..Len(faces) : \A t \in 1..3 : faces[f][t] \in 9..14
    /\ Len(faces) = 12 + 8

\* C9: for the polygon extruded last (N points, its faces the last 4N-4 of
\* the buffer), the k-th back-cap face is the k-th front-cap face moved to
\* the back block with its last two indices swapped, and no other back-cap
\* face matches it.
LastFacesStart == Len(faces) - (4 * Len(scaled_points) - 4)

FrontCap(k) == faces[LastFacesStart + k]
BackCap(k) == faces[LastFacesStart + Len(scaled_points) - 2 + k]

Mirrored(face, cnt) == <<face[1] + cnt, face[3] + cnt, face[2] + cnt>>

C9_BackCapMirrorsFrontCap ==
    entry = "svg_to_obj" /\ scaled_points # <<>>
    => LET cnt == Len(scaled_points)
       IN  \A k \in 1..(cnt - 2) :
              /\ \A t \in 1..3 :
                    FrontCap(k)[t] \in (front_start + 1)..(front_start + cnt)
              /\ BackCap(k) = Mirrored(FrontCap(k), cnt)
              /\ {b \in 1..(cnt - 2) : BackCap(b) = Mirrored(FrontCap(k), cnt)}
                    = {k}

\* the 4-point square: front (0,1,2) pairs with back (0,2,1)
C9_Witness ==
    /\ entry = "svg_to_obj"
    /\ pc = "done"
    /\ paths = <<PathD(OpenSquarePath)>>
    /\ Len(scaled_points) = 4
    /\ FrontCap(1) = <<0 + 1, 1 + 1, 2 + 1>>
    /\ BackCap(1) = <<4 + 0 + 1, 4 + 2 + 1, 4 + 1 + 1>>

\* C10: a cubic command appends exactly 5 points, the samples of the curve
\* at t = 1/5 .. 1 (the sample at t = 0 is current and is not appended); the
\* last one is the endpoint, and current becomes the endpoint.
CurveOperand(a) == float[tokens[parser.i + 1 + a].v]

CurveControl(a) ==
    IF tokens[parser.i + 1].c = "c"
    THEN IF a % 2 = 1 THEN FAdd[CurveOperand(a), parser.current_x]
                      ELSE FAdd[CurveOperand(a), parser.current_y]
    ELSE CurveOperand(a)

CurveSample(k) ==
    <<BezierCoord[k, 5, <<parser.current_x, CurveControl(1), CurveControl(3),
                         CurveControl(5)>>],
      BezierCoord[k, 5, <<parser.current_y, CurveControl(2), CurveControl(4),
                         CurveControl(6)>>]>>

C10_CurveStep ==
    AtCommand({"C", "c"}) /\ parser'.exc = "none" =>
       /\ Len(parser'.points) = Len(parser.points) + 5
       /\ IsPrefix(parser.points, parser'.points)
       /\ \A k \in 1..5 :
             parser'.points[Len(parser.points) + k] = CurveSample(k)
       /\ CurveSample(0) = Current(parser)
       /\ parser'.points[Len(parser.points) + 5]
             = <<CurveControl(5), CurveControl(6)>>
       /\ Current(parser') = <<CurveControl(5), CurveControl(6)>>

C10_CurveAppendsFiveSamples == [][C10_CurveStep]_vars

\* a relative curve just drawn from a cursor away from the origin
C10_Witness ==
    /\ pc = "parse"
    /\ parser.i = 10
    /\ tokens[1].c = "M" /\ tokens[2].v = 3
    /\ tokens[4].c = "c"
    /\ Len(parser.points) = 6
    /\ parser.points[6] = Current(parser)
    /\ parser.current_x = FAdd[float[tokens[9].v], float[3]]
    /\ parser.points[2] # parser.points[6]
====
